---- MODULE Spec2Model ----
(***************************************************************************)
(* Blog Q&A chatbot (RAG): the retrieval core of App.jsx (tokenizer,       *)
(* chunker, TF-IDF index, scorer), the App component's handlers, and the   *)
(* /api/ask handler with its context budget.                               *)
(*                                                                         *)
(* Strings are run-length encoded: a string is a sequence of runs          *)
(* [c |-> <character name>, n |-> <repeat count>], kept canonical (no      *)
(* empty run, no two adjacent runs of the same character), so that the     *)
(* program's real size constants (420, 60, 1500, 8000) can be used.        *)
(* Characters are named: "a" "b" "c" lowercase letters, "A" the uppercase  *)
(* of "a", "da" "yo" the Hangul syllables of the chunker's pattern, "sp"   *)
(* space, "nl" newline, "dot" ".", "bang" "!", "quote" the double quote,   *)
(* "one" the digit 1.                                                      *)
(***************************************************************************)
EXTENDS Integers, Sequences, FiniteSets, TLC

\* ------------------------------------------------------------------- state
\* chunkText run on its own: the input, the loop's locals (sents, i, buf and
\* chunks), the returned passages and the position.
VARIABLES ckText, ckOpts, ckSents, ckI, ckSt, ckOut, ckPc

\* tokenizeKorean run on its own: the input, the terms returned, the terms
\* returned for their space-joined text, and the position.
VARIABLES tkText, tkOut, tkAgain, tkPc

\* One request to the /api/ask handler: the request, the handler's position,
\* the budget loop's locals (i, limited, acc) and the response.
VARIABLES apiReq, apiPc, apiI, apiSt, apiRes

\* The App component in the browser:
\*   kb, chat, activeTab, loading          the useState values of App (query,
\*                                          the text of the question box, is the
\*                                          argument of the ask actions)
\*   chunks, index                          the useMemo values of App, computed
\*                                          from the dependencies kb and chunks
\*   stored                                 localStorage[STORAGE_KEY]
\*   crashed                                a render threw: React unmounted the tree
\*   asks                                   handleAsk calls awaiting /api/ask
\*   nAsks                                  how many handleAsk calls were accepted
\*   reads                                  FileReader reads in progress (handleImport)
\*   rss, loadingRSS                        importFromRSS calls awaiting /api/rss
\*   nextUuid                               how many ids uuidv4() has handed out
\*   lastOp                                 the locals of the handler that just ran
VARIABLES kb, chat, activeTab, loading, chunks, index,
          stored, crashed, asks, nAsks, reads, rss, loadingRSS, nextUuid, lastOp

chunkVars == <<ckText, ckOpts, ckSents, ckI, ckSt, ckOut, ckPc>>
tokVars == <<tkText, tkOut, tkAgain, tkPc>>
apiVars == <<apiReq, apiPc, apiI, apiSt, apiRes>>
appVars == <<kb, chat, activeTab, loading, chunks, index,
             stored, crashed, asks, nAsks, reads, rss, loadingRSS, nextUuid, lastOp>>
others == <<chunkVars, tokVars, apiVars>>
vars == <<chunkVars, tokVars, tokVars, apiVars, appVars>>

\* ------------------------------------------------------------------ bounds
\* MaxPieces      pieces of a text given to chunkText on its own
\* MaxChunkLen    largest maxLen, MaxOverlap largest overlap tried there
\* MaxCtx         contexts of a request to /api/ask on its own
\* MaxTokPieces   pieces of a text given to tokenizeKorean on its own
\* MaxDocs        documents in kb
\* MaxAsks        questions accepted by one page
\* MaxChatAsks    questions accepted by the chat panel on its own
\* MaxUuid        ids handed out by uuidv4()
\* MaxPending     file reads and RSS imports in progress at a time
MaxPieces == 3
MaxChunkLen == 5
MaxOverlap == 2
MaxCtx == 4
MaxTokPieces == 3
MaxDocs == 2
MaxAsks == 1
MaxChatAsks == 2
MaxUuid == 2
MaxPending == 1

\* ------------------------------------------------------- string primitives
Max(a, b) == IF a >= b THEN a ELSE b
Min(a, b) == IF a <= b THEN a ELSE b

R(c, n) == [c |-> c, n |-> n]
EmptyStr == <<>>

IsWs(c) == c \in {"sp", "nl"}

RECURSIVE StrLen(_)
StrLen(s) == IF s = <<>> THEN 0 ELSE s[1].n + StrLen(Tail(s))

\* String concatenation s + t, kept canonical.
Cat(s, t) ==
  IF s = <<>> THEN t
  ELSE IF t = <<>> THEN s
  ELSE IF s[Len(s)].c = t[1].c
       THEN SubSeq(s, 1, Len(s) - 1) \o <<R(t[1].c, s[Len(s)].n + t[1].n)>> \o Tail(t)
       ELSE s \o t

\* The first k characters of s (k >= 0).
RECURSIVE Take(_, _)
Take(s, k) ==
  IF k <= 0 \/ s = <<>> THEN <<>>
  ELSE IF s[1].n >= k THEN <<R(s[1].c, k)>>
  ELSE <<s[1]>> \o Take(Tail(s), k - s[1].n)

\* s without its first k characters (k >= 0).
RECURSIVE Drop(_, _)
Drop(s, k) ==
  IF k <= 0 \/ s = <<>> THEN s
  ELSE IF s[1].n > k THEN <<R(s[1].c, s[1].n - k)>> \o Tail(s)
  ELSE Drop(Tail(s), k - s[1].n)

\* String.prototype.slice(from, to) for 0 <= from, to.
Slice(s, from, to) == Take(Drop(s, from), to - from)

RECURSIVE TrimStart(_)
TrimStart(s) == IF s # <<>> /\ IsWs(s[1].c) THEN TrimStart(Tail(s)) ELSE s

RECURSIVE TrimEnd(_)
TrimEnd(s) ==
  IF s # <<>> /\ IsWs(s[Len(s)].c) THEN TrimEnd(SubSeq(s, 1, Len(s) - 1)) ELSE s

\* String.prototype.trim()
Trim(s) == TrimEnd(TrimStart(s))

\* s.replace(/\s+/g, " "): every maximal run of whitespace becomes one space.
RECURSIVE CollapseWs(_)
CollapseWs(s) ==
  IF s = <<>> THEN <<>>
  ELSE LET rest == CollapseWs(Tail(s)) IN
       IF IsWs(s[1].c)
       THEN IF rest # <<>> /\ rest[1].c = "sp" THEN rest ELSE <<R("sp", 1)>> \o rest
       ELSE <<s[1]>> \o rest

\* The characters of s one by one (used on short strings only).
RECURSIVE Expand(_)
Expand(s) ==
  IF s = <<>> THEN <<>>
  ELSE IF s[1].n = 1 THEN <<s[1].c>> \o Expand(Tail(s))
  ELSE <<s[1].c>> \o Expand(<<R(s[1].c, s[1].n - 1)>> \o Tail(s))

\* p occurs in s as a contiguous substring.
IsSubstr(p, s) ==
  LET ps == Expand(p)
      ss == Expand(s)
  IN \E i \in 0..(Len(ss) - Len(ps)) : SubSeq(ss, i + 1, i + Len(ps)) = ps

\* ------------------------------------------------------------- JS values
\* A value read from a document field or passed to the text utilities:
\* a string, undefined/null, the number 0 (falsy), a non-zero number or an
\* object (both truthy, neither has string methods).
Str(s) == [k |-> "str", s |-> s]
Undef == [k |-> "undef", s |-> <<>>]
Zero == [k |-> "zero", s |-> <<>>]
Num == [k |-> "num", s |-> <<>>]
Obj == [k |-> "obj", s |-> <<>>]

\* JS truthiness
Truthy(v) == \/ v.k \in {"num", "obj"}
             \/ v.k = "str" /\ v.s # <<>>

\* (v || "")
OrEmpty(v) == IF Truthy(v) THEN v ELSE Str(<<>>)

Ok(val) == [threw |-> FALSE, val |-> val]
Threw == [threw |-> TRUE, val |-> <<>>]

\* ------------------------------------------------------------- chunkText
DefaultMaxLen == 420
DefaultOverlap == 60
DefaultOpts == [maxLen |-> DefaultMaxLen, overlap |-> DefaultOverlap]

EndsSentence(c) == c \in {"dot", "bang", "nl"}
BeforeSpaceBreak(c) == c \in {"da", "yo", "dot"}

\* s.split(/(?<=[.!?\n]|[다요요.]\s)/): a cut after every . ! ? newline, and
\* after a whitespace character that follows 다, 요 or a period.  prev is the
\* character before the rest (""at the start), cur the segment in progress.
RECURSIVE SplitRec(_, _, _)
SplitRec(rest, cur, prev) ==
  IF rest = <<>> THEN (IF cur = <<>> THEN <<>> ELSE <<cur>>)
  ELSE LET r == rest[1]
           after == IF r.n = 1 THEN Tail(rest) ELSE <<R(r.c, r.n - 1)>> \o Tail(rest)
       IN IF EndsSentence(r.c) \/ (IsWs(r.c) /\ BeforeSpaceBreak(prev))
          THEN IF after = <<>>
               THEN <<Cat(cur, <<R(r.c, 1)>>)>>
               ELSE <<Cat(cur, <<R(r.c, 1)>>)>> \o SplitRec(after, <<>>, r.c)
          ELSE SplitRec(Tail(rest), Cat(cur, <<r>>), r.c)

SplitSents(s) == IF s = <<>> THEN <<EmptyStr>> ELSE SplitRec(s, <<>>, "")

\* ChunkStep with the flushing branch seeding the next buffer with the tail
\* only: the segment that triggered the flush is lost.
ChunkStep_LosesSegment(st, s, opts) ==
  IF StrLen(Cat(st.buf, s)) > opts.maxLen
  THEN [chunks |-> IF Trim(st.buf) # <<>> THEN Append(st.chunks, Trim(st.buf))
                   ELSE st.chunks,
        buf |-> Slice(st.buf, Max(0, StrLen(st.buf) - opts.overlap), StrLen(st.buf))]
  ELSE [chunks |-> st.chunks, buf |-> Cat(st.buf, s)]

\* ChunkStep with a hard cut: the new buffer is kept to maxLen characters.
ChunkStep_Truncates(st, s, opts) ==
  IF StrLen(Cat(st.buf, s)) > opts.maxLen
  THEN [chunks |-> IF Trim(st.buf) # <<>> THEN Append(st.chunks, Trim(st.buf))
                   ELSE st.chunks,
        buf |-> Take(Cat(Slice(st.buf, Max(0, StrLen(st.buf) - opts.overlap),
                               StrLen(st.buf)), s), opts.maxLen)]
  ELSE [chunks |-> st.chunks, buf |-> Cat(st.buf, s)]

\* ChunkStep without the overlap: after a flush the buffer starts with the
\* segment alone.
ChunkStep_NoTail(st, s, opts) ==
  IF StrLen(Cat(st.buf, s)) > opts.maxLen
  THEN [chunks |-> IF Trim(st.buf) # <<>> THEN Append(st.chunks, Trim(st.buf))
                   ELSE st.chunks,
        buf |-> s]
  ELSE [chunks |-> st.chunks, buf |-> Cat(st.buf, s)]

\* One iteration of chunkText's loop over segment s.
ChunkStep(st, s, opts) ==
  IF StrLen(Cat(st.buf, s)) > opts.maxLen
  THEN [chunks |-> IF Trim(st.buf) # <<>> THEN Append(st.chunks, Trim(st.buf))
                   ELSE st.chunks,
        buf |-> Cat(Slice(st.buf, Max(0, StrLen(st.buf) - opts.overlap), StrLen(st.buf)), s)]
  ELSE [chunks |-> st.chunks, buf |-> Cat(st.buf, s)]

\* The flush after the loop.
ChunkFlush(st) ==
  IF Trim(st.buf) # <<>> THEN Append(st.chunks, Trim(st.buf)) ELSE st.chunks

RECURSIVE ChunkLoop(_, _, _, _)
ChunkLoop(sents, i, st, opts) ==
  IF i > Len(sents) THEN st ELSE ChunkLoop(sents, i + 1, ChunkStep(st, sents[i], opts), opts)

ChunkInit == [chunks |-> <<>>, buf |-> EmptyStr]

\* The segments chunkText iterates over.
ChunkSents(v) == SplitSents(CollapseWs(OrEmpty(v).s))

\* chunkText(text, opts): a truthy non-string has no replace method.
ChunkText(v, opts) ==
  IF OrEmpty(v).k # "str" THEN Threw
  ELSE Ok(ChunkFlush(ChunkLoop(ChunkSents(v), 1, ChunkInit, opts)))

\* -------------------------------------------------------- tokenizeKorean
\* toLowerCase()
Lower(c) == IF c = "A" THEN "a" ELSE c

\* The character class with the period left in it.
IsTermChar_KeepsDot(c) == c \in {"a", "b", "c", "one", "da", "yo", "dot"}

\* [a-z0-9가-힣]: what the tokenizer keeps; everything else becomes a space.
IsTermChar(c) == c \in {"a", "b", "c", "one", "da", "yo"}

\* .split(/\s+/).filter(Boolean) after the two replaces: the maximal runs of
\* kept characters, in order.
RECURSIVE TokRec(_, _)
TokRec(rest, cur) ==
  IF rest = <<>> THEN (IF cur = <<>> THEN <<>> ELSE <<cur>>)
  ELSE LET c == Lower(rest[1].c) IN
       IF IsTermChar(c)
       THEN TokRec(Tail(rest), Cat(cur, <<R(c, rest[1].n)>>))
       ELSE (IF cur = <<>> THEN <<>> ELSE <<cur>>) \o TokRec(Tail(rest), <<>>)

\* tokenizeKorean(text): a truthy non-string has no toLowerCase method.
TokenizeKorean(v) ==
  IF OrEmpty(v).k # "str" THEN Threw ELSE Ok(TokRec(OrEmpty(v).s, <<>>))

\* ------------------------------------------------------- buildTfIdfIndex
Range(f) == {f[i] : i \in DOMAIN f}

\* occurrences of t in the token sequence
Count(tokens, t) == Cardinality({i \in DOMAIN tokens : tokens[i] = t})

\* tf map and len of one passage
DocEntry(d) ==
  LET tokens == TokenizeKorean(Str(d.text)).val
  IN [tf |-> [t \in Range(tokens) |-> Count(tokens, t)], len |-> Len(tokens)]

\* docTokens.set(d.id, ...) in docs order: a later passage with the same id
\* overwrites the earlier one's entry.
LastWithId(docs, id) ==
  CHOOSE i \in DOMAIN docs :
    /\ docs[i].id = id
    /\ \A j \in DOMAIN docs : docs[j].id = id => j <= i

\* buildTfIdfIndex with df incremented for every token (tokens.forEach for
\* uniq.forEach): a term repeated in a passage is counted each time.
BuildTfIdfIndex_DfPerOccurrence(docs) ==
  LET entry == [i \in DOMAIN docs |-> DocEntry(docs[i])]
      terms == UNION {DOMAIN entry[i].tf : i \in DOMAIN docs}
      occ(i, t) == IF t \in DOMAIN entry[i].tf THEN entry[i].tf[t] ELSE 0
      total[i \in 0..Len(docs)] ==
        [t \in terms |-> IF i = 0 THEN 0 ELSE total[i - 1][t] + occ(i, t)]
  IN [docs |-> docs,
      N |-> IF Len(docs) = 0 THEN 1 ELSE Len(docs),
      docTokens |-> [id \in {docs[i].id : i \in DOMAIN docs} |->
                       entry[LastWithId(docs, id)]],
      df |-> total[Len(docs)]]

\* buildTfIdfIndex(docs): N, docTokens (keyed by passage id) and df (one
\* increment per passage per distinct term of it).
BuildTfIdfIndex(docs) ==
  LET entry == [i \in DOMAIN docs |-> DocEntry(docs[i])]
      terms == UNION {DOMAIN entry[i].tf : i \in DOMAIN docs}
  IN [docs |-> docs,
      N |-> IF Len(docs) = 0 THEN 1 ELSE Len(docs),
      docTokens |-> [id \in {docs[i].id : i \in DOMAIN docs} |->
                       entry[LastWithId(docs, id)]],
      df |-> [t \in terms |->
                Cardinality({i \in DOMAIN docs : t \in DOMAIN entry[i].tf})]]

\* ----------------------------------------------------------------- score
\* Math.log(k) in hundredths, k = 1..40
LnTable ==
  <<0, 69, 110, 139, 161, 179, 195, 208, 220, 230, 240, 248, 256, 264, 271, 277,
    283, 289, 294, 300, 304, 309, 314, 318, 322, 326, 330, 333, 337, 340, 343,
    347, 350, 353, 356, 358, 361, 364, 366, 369>>

\* df.get(t) || 0
DfOf(ix, t) == IF t \in DOMAIN ix.df THEN ix.df[t] ELSE 0

\* Math.log((N + 1) / (df + 1)) + 1, in hundredths
Idf(ix, t) == LnTable[ix.N + 1] - LnTable[DfOf(ix, t) + 1] + 100

\* dt.tf.get(t) || 0
TfOf(dt, t) == IF t \in DOMAIN dt.tf THEN dt.tf[t] ELSE 0

RECURSIVE SumOver(_, _)
SumOver(f, S) ==
  IF S = {} THEN 0
  ELSE LET x == CHOOSE x \in S : TRUE IN f[x] + SumOver(f, S \ {x})

\* The score of the passage whose docTokens entry is dt, as the fraction
\* num / den in units of 1/10000:
\*   s = sum over distinct query terms of (qtf/qLen * idf) * (tf/(len||1)) * idf
PassageScore(ix, dt, qTokens) ==
  LET qLen == IF Len(qTokens) = 0 THEN 1 ELSE Len(qTokens)
      dLen == IF dt.len = 0 THEN 1 ELSE dt.len
      terms == Range(qTokens)
      part == [t \in terms |-> Count(qTokens, t) * Idf(ix, t) * TfOf(dt, t) * Idf(ix, t)]
  IN [num |-> SumOver(part, terms), den |-> qLen * dLen]

\* sign of x.score - y.score
ScoreCmp(x, y) ==
  LET l == x.score.num * y.score.den
      r == y.score.num * x.score.den
  IN IF l > r THEN 1 ELSE IF l < r THEN -1 ELSE 0

\* results.sort((a, b) => b.score - a.score) with the comparator reversed:
\* ascending order.
Comparator_Ascending(a, b) == ScoreCmp(a, b)

\* (a, b) => b.score - a.score
Comparator(a, b) == ScoreCmp(b, a)

\* An unstable sort: x goes before the first element the comparator does not
\* put before it, so that equal elements change places.
RECURSIVE SortInsert_Unstable(_, _)
SortInsert_Unstable(sorted, x) ==
  IF sorted = <<>> THEN <<x>>
  ELSE IF Comparator(sorted[1], x) >= 0 THEN <<x>> \o sorted
  ELSE <<sorted[1]>> \o SortInsert_Unstable(Tail(sorted), x)

\* Array.prototype.sort is stable: x goes before the first element that the
\* comparator puts strictly after it.
RECURSIVE SortInsert(_, _)
SortInsert(sorted, x) ==
  IF sorted = <<>> THEN <<x>>
  ELSE IF Comparator(sorted[1], x) > 0 THEN <<x>> \o sorted
  ELSE <<sorted[1]>> \o SortInsert(Tail(sorted), x)

RECURSIVE SortResults(_, _)
SortResults(results, i) ==
  IF i = 0 THEN <<>> ELSE SortInsert(SortResults(results, i - 1), results[i])

\* score(query): one result per passage d of docs, scored from
\* docTokens.get(d.id), then sorted.
Score(ix, q) ==
  LET qTokens == TokenizeKorean(Str(q)).val
      results == [i \in DOMAIN ix.docs |->
                    [id |-> ix.docs[i].id,
                     score |-> PassageScore(ix, ix.docTokens[ix.docs[i].id], qTokens),
                     meta |-> ix.docs[i].meta]]
  IN SortResults(results, Len(results))

\* ---------------------------------------------------- /api/ask handler
ChunksizeLimit == 8000
TextCap == 1500

\* JSON.stringify of a string's characters: the double quote and the newline
\* are escaped to two characters, the others stand for themselves.
JsonWidth(c) == IF c \in {"quote", "nl"} THEN 2 ELSE 1

RECURSIVE JsonChars(_)
JsonChars(s) == IF s = <<>> THEN 0 ELSE s[1].n * JsonWidth(s[1].c) + JsonChars(Tail(s))

\* JSON.stringify({ text, url, title }).length: {"text":"","url":"","title":""}
\* is 31 characters.
ItemJsonLen(item) == 31 + JsonChars(item.text) + JsonChars(item.url) + JsonChars(item.title)

\* JSON.stringify(limited).length: the brackets, the items, the commas.
RECURSIVE SumItemLens(_)
SumItemLens(items) ==
  IF items = <<>> THEN 0 ELSE ItemJsonLen(items[1]) + SumItemLens(Tail(items))

ListJsonLen(items) ==
  2 + SumItemLens(items) + (IF Len(items) = 0 THEN 0 ELSE Len(items) - 1)

\* const method = req.method || (req.body ? "POST" : "GET")
EffectiveMethod(req) ==
  IF req.method # "" THEN req.method ELSE IF req.body.present THEN "POST" ELSE "GET"

\* const { question, contexts } = req.body || {}
BodyQuestion(req) == IF req.body.present THEN req.body.question ELSE Undef
BodyContexts(req) ==
  IF req.body.present THEN req.body.contexts ELSE [isArray |-> FALSE, items |-> <<>>]

\* The handler's two early returns: 405, 400, or 0 to go on.
\* The 400 test without the Array.isArray half.
Validate_NoArrayTest(req) ==
  IF EffectiveMethod(req) # "POST" THEN 405
  ELSE IF ~Truthy(BodyQuestion(req)) THEN 400
  ELSE 0

Validate(req) ==
  IF EffectiveMethod(req) # "POST" THEN 405
  ELSE IF ~Truthy(BodyQuestion(req)) \/ ~BodyContexts(req).isArray THEN 400
  ELSE 0

\* { text: (c.text || "").slice(0, 1500), url: c.url || "", title: c.title || "" }
MakeItem(c) ==
  [text |-> Slice(OrEmpty(c.text).s, 0, TextCap),
   url |-> OrEmpty(c.url).s,
   title |-> OrEmpty(c.title).s]

BudgetInit == [limited |-> <<>>, acc |-> 0, stop |-> FALSE, threw |-> FALSE]

\* The budget loop's test without the running total: each item is compared
\* with the limit on its own.
Overflows_IgnoresAcc(acc, len) == len > ChunksizeLimit

\* if (acc + len > chunksizeLimit) break;
Overflows(acc, len) == acc + len > ChunksizeLimit

\* One iteration of the budget loop over context c.  A truthy non-string
\* text has no slice method: the TypeError goes to the handler's catch.
BudgetStep(st, c) ==
  IF OrEmpty(c.text).k # "str" THEN [st EXCEPT !.threw = TRUE]
  ELSE LET item == MakeItem(c)
           len == ItemJsonLen(item)
       IN IF Overflows(st.acc, len) THEN [st EXCEPT !.stop = TRUE]
          ELSE [st EXCEPT !.limited = Append(@, item), !.acc = @ + len]

RECURSIVE BudgetLoop(_, _, _)
BudgetLoop(items, i, st) ==
  IF i > Len(items) \/ st.stop \/ st.threw THEN st
  ELSE BudgetLoop(items, i + 1, BudgetStep(st, items[i]))

\* What the generation service does when called.
GenOutcomes == {"answer", "noContent", "error"}

\* The response: the status, and for 200 the body { answer, used }.  budgeted
\* and genCalled tell how far the handler got.
Response(status, used, answered, budgeted, genCalled) ==
  [status |-> status, used |-> used, answered |-> answered,
   budgeted |-> budgeted, genCalled |-> genCalled]

\* handler(req, res), the generation service answering as gen
AskHandler(req, gen) ==
  IF Validate(req) # 0 THEN Response(Validate(req), <<>>, FALSE, FALSE, FALSE)
  ELSE LET st == BudgetLoop(BodyContexts(req).items, 1, BudgetInit) IN
       IF st.threw THEN Response(500, <<>>, FALSE, TRUE, FALSE)
       ELSE IF gen = "error" THEN Response(500, <<>>, FALSE, TRUE, TRUE)
       ELSE Response(200, st.limited, gen = "answer", TRUE, TRUE)

\* ------------------------------------------------------ chunker, stepwise
\* chunkText run on its own, over every short text and option pair.

Pieces ==
  { <<R("a", 1), R("b", 1)>>, <<R("c", 1)>>, <<R("da", 1)>>, <<R("dot", 1)>>,
    <<R("bang", 1)>>, <<R("sp", 1)>>, <<R("sp", 2)>> }

RECURSIVE TextsOf(_)
TextsOf(k) ==
  IF k = 0 THEN {EmptyStr}
  ELSE LET shorter == TextsOf(k - 1)
       IN shorter \cup {Cat(t, p) : t \in shorter, p \in Pieces}

ChunkInputs == {Str(t) : t \in TextsOf(MaxPieces)} \cup {Undef, Zero, Num, Obj}

ChunkIdle ==
  /\ ckSents = <<>> /\ ckI = 0 /\ ckSt = ChunkInit /\ ckOut = <<>> /\ ckPc = "idle"

ChunkSpecInit ==
  /\ ckText \in ChunkInputs
  /\ ckOpts \in [maxLen : 1..MaxChunkLen, overlap : 0..MaxOverlap]
  /\ ChunkIdle

\* const sents = (text || "").replace(...).split(...)
ChunkTextCall ==
  /\ ckPc = "idle"
  /\ IF OrEmpty(ckText).k # "str"
     THEN /\ ckPc' = "threw"
          /\ UNCHANGED <<ckSents, ckI>>
     ELSE /\ ckSents' = ChunkSents(ckText)
          /\ ckI' = 1
          /\ ckPc' = "loop"
  /\ UNCHANGED <<ckText, ckOpts, ckSt, ckOut, tokVars, apiVars, appVars>>

\* for (let i = 0; i < sents.length; i++) { ... }
ChunkTextIter ==
  /\ ckPc = "loop"
  /\ ckI <= Len(ckSents)
  /\ ckSt' = ChunkStep(ckSt, ckSents[ckI], ckOpts)
  /\ ckI' = ckI + 1
  /\ UNCHANGED <<ckText, ckOpts, ckSents, ckOut, ckPc, tokVars, apiVars, appVars>>

\* if (buf.trim()) chunks.push(buf.trim()); return chunks;
ChunkTextReturn ==
  /\ ckPc = "loop"
  /\ ckI > Len(ckSents)
  /\ ckOut' = ChunkFlush(ckSt)
  /\ ckPc' = "done"
  /\ UNCHANGED <<ckText, ckOpts, ckSents, ckI, ckSt, tokVars, apiVars, appVars>>

ChunkNext == ChunkTextCall \/ ChunkTextIter \/ ChunkTextReturn

\* ---------------------------------------------------- tokenizer, stepwise
\* tokenizeKorean run on its own, over every short text, and then on the
\* space-joined terms it returned.

TokPieces ==
  { <<R("a", 1)>>, <<R("A", 1)>>, <<R("b", 2)>>, <<R("one", 1)>>, <<R("da", 1)>>,
    <<R("sp", 1)>>, <<R("nl", 1)>>, <<R("dot", 1)>>, <<R("quote", 1)>> }

RECURSIVE TokTextsOf(_)
TokTextsOf(k) ==
  IF k = 0 THEN {EmptyStr}
  ELSE LET shorter == TokTextsOf(k - 1)
       IN shorter \cup {Cat(t, p) : t \in shorter, p \in TokPieces}

TokInputs == {Str(t) : t \in TokTextsOf(MaxTokPieces)} \cup {Undef, Zero, Num, Obj}

\* tokens.join(" ")
RECURSIVE JoinSp(_)
JoinSp(tokens) ==
  IF tokens = <<>> THEN EmptyStr
  ELSE IF Len(tokens) = 1 THEN tokens[1]
  ELSE Cat(Cat(tokens[1], <<R("sp", 1)>>), JoinSp(Tail(tokens)))

TokIdle == tkOut = <<>> /\ tkAgain = <<>> /\ tkPc = "idle"

TokSpecInit == tkText \in TokInputs /\ TokIdle

\* tokenizeKorean(text)
TokenizeCall ==
  /\ tkPc = "idle"
  /\ LET r == TokenizeKorean(tkText) IN
     IF r.threw THEN tkPc' = "threw" /\ tkOut' = tkOut
     ELSE tkPc' = "once" /\ tkOut' = r.val
  /\ UNCHANGED <<tkText, tkAgain, chunkVars, apiVars, appVars>>

\* tokenizeKorean(terms.join(" "))
TokenizeJoined ==
  /\ tkPc = "once"
  /\ tkAgain' = TokenizeKorean(Str(JoinSp(tkOut))).val
  /\ tkPc' = "twice"
  /\ UNCHANGED <<tkText, tkOut, chunkVars, apiVars, appVars>>

TokNext == TokenizeCall \/ TokenizeJoined

\* ------------------------------------------------- /api/ask, stepwise
\* One request to the /api/ask handler, over the requests of ApiRequests.

Rep(c, n) == <<R(c, n)>>

Ctx(text, url, title) == [text |-> text, url |-> url, title |-> title]

\* Contexts of serialized sizes 3031, 1938, 1531 (text cut from 3000 to 1500
\* characters), 32 and 31, and one whose text is a number.
CtxPool ==
  { Ctx(Str(Rep("quote", 1500)), Str(<<>>), Str(<<>>)),
    Ctx(Str(Rep("a", 1500)), Str(Rep("b", 407)), Undef),
    Ctx(Str(Rep("a", 3000)), Undef, Undef),
    Ctx(Str(Rep("a", 1)), Str(<<>>), Str(<<>>)),
    Ctx(Undef, Undef, Undef),
    Ctx(Num, Str(<<>>), Str(<<>>)) }

RECURSIVE SeqsUpTo(_, _)
SeqsUpTo(S, k) ==
  IF k = 0 THEN {<<>>}
  ELSE LET shorter == SeqsUpTo(S, k - 1)
       IN shorter \cup {Append(q, x) : q \in shorter, x \in S}

Array(items) == [isArray |-> TRUE, items |-> items]
NotArray == [isArray |-> FALSE, items |-> <<>>]

Body(question, contexts) == [present |-> TRUE, question |-> question, contexts |-> contexts]
NoBody == [present |-> FALSE, question |-> Undef, contexts |-> NotArray]

ApiRequests ==
  {[method |-> "POST", body |-> Body(Str(Rep("a", 1)), Array(items))] :
      items \in SeqsUpTo(CtxPool, MaxCtx)}
  \cup
  {[method |-> m, body |-> b] :
      m \in {"POST", "GET", "PUT", ""},
      b \in {NoBody} \cup
            {Body(q, c) : q \in {Str(Rep("a", 1)), Str(<<>>), Undef, Num},
                          c \in {NotArray, Array(<<>>)}}}

NoResponse == Response(0, <<>>, FALSE, FALSE, FALSE)

ApiIdle == apiPc = "recv" /\ apiI = 0 /\ apiSt = BudgetInit /\ apiRes = NoResponse

ApiSpecInit == apiReq \in ApiRequests /\ ApiIdle

\* lines 7-18: the method test and the body test
ApiReceive ==
  /\ apiPc = "recv"
  /\ IF Validate(apiReq) # 0
     THEN /\ apiRes' = Response(Validate(apiReq), <<>>, FALSE, FALSE, FALSE)
          /\ apiPc' = "done"
          /\ apiI' = apiI
     ELSE /\ apiPc' = "budget"
          /\ apiI' = 1
          /\ apiRes' = apiRes
  /\ UNCHANGED <<apiReq, apiSt, chunkVars, tokVars, appVars>>

\* for (const c of contexts) { ... }
ApiBudgetIter ==
  /\ apiPc = "budget"
  /\ apiI <= Len(BodyContexts(apiReq).items)
  /\ ~apiSt.stop /\ ~apiSt.threw
  /\ apiSt' = BudgetStep(apiSt, BodyContexts(apiReq).items[apiI])
  /\ apiI' = apiI + 1
  /\ UNCHANGED <<apiReq, apiPc, apiRes, chunkVars, tokVars, appVars>>

\* catch (e) { res.status(500) } for an exception of the budget loop
ApiCatch ==
  /\ apiPc = "budget"
  /\ apiSt.threw
  /\ apiRes' = Response(500, <<>>, FALSE, TRUE, FALSE)
  /\ apiPc' = "done"
  /\ UNCHANGED <<apiReq, apiI, apiSt, chunkVars, tokVars, appVars>>

\* client.chat.completions.create(...) and the 200 response, or the catch
ApiGenerate ==
  /\ apiPc = "budget"
  /\ ~apiSt.threw
  /\ apiSt.stop \/ apiI > Len(BodyContexts(apiReq).items)
  /\ \E gen \in GenOutcomes :
       apiRes' = IF gen = "error" THEN Response(500, <<>>, FALSE, TRUE, TRUE)
                 ELSE Response(200, apiSt.limited, gen = "answer", TRUE, TRUE)
  /\ apiPc' = "done"
  /\ UNCHANGED <<apiReq, apiI, apiSt, chunkVars, tokVars, appVars>>

ApiNext == ApiReceive \/ ApiBudgetIter \/ ApiCatch \/ ApiGenerate

\* ------------------------------------------------------------ App: data
TopK == 8
MaxContexts == 6
ExcerptLen == 200
RssPick == 20

\* "제목 없음"
NoTitle == Rep("t", 5)

Doc(id, title, url, content) == [id |-> id, title |-> title, url |-> url, content |-> content]

\* uuidv4(): the n-th id handed out; never an id found in a file
Uuid(n) == 100 + n

\* chunks = useMemo(...): the passages of every document of kb, in order.
\* chunkText is called with the default options; if it throws, so does the
\* render.
Passage(doc, idx, c) ==
  [id |-> <<doc.id, idx>>, text |-> c,
   meta |-> [title |-> doc.title, url |-> doc.url, docId |-> doc.id, chunkIndex |-> idx]]

RECURSIVE ExpandKb(_)
ExpandKb(k) ==
  IF k = <<>> THEN Ok(<<>>)
  ELSE LET cs == ChunkText(k[1].content, DefaultOpts)
           rest == ExpandKb(Tail(k))
       IN IF cs.threw \/ rest.threw THEN Threw
          ELSE Ok([i \in 1..Len(cs.val) |-> Passage(k[1], i - 1, cs.val[i])] \o rest.val)

\* useMemo with an empty dependency list: the first value is kept for ever.
UseMemo_NoDeps(prevDeps, deps, prevValue, newValue) == prevValue

\* useMemo(() => newValue, [deps]): recomputed when the dependency changed
UseMemo(prevDeps, deps, prevValue, newValue) ==
  IF deps = prevDeps THEN prevValue ELSE newValue

\* A render of App with kb = newKb after a render with kb, chunks and index.
Render(newKb) ==
  LET c == UseMemo(kb, newKb, Ok(chunks), ExpandKb(newKb)) IN
  IF c.threw THEN [threw |-> TRUE, chunks |-> <<>>, index |-> BuildTfIdfIndex(<<>>)]
  ELSE [threw |-> FALSE, chunks |-> c.val,
        index |-> UseMemo(chunks, c.val, index, BuildTfIdfIndex(c.val))]

\* chunks.find((c) => c.id === id): the first passage with that id
FindChunk(cs, id) ==
  IF \E i \in DOMAIN cs : cs[i].id = id
  THEN <<cs[CHOOSE i \in DOMAIN cs : cs[i].id = id /\ \A j \in 1..(i - 1) : cs[j].id # id]>>
  ELSE <<>>

Context(ch) == [text |-> ch.text, url |-> ch.meta.url, title |-> ch.meta.title]

\* for (const r of scored) { find; if (!ch) continue; push; if (>= 6) break; }
RECURSIVE TopLoop(_, _, _, _)
TopLoop(scored, i, top, cs) ==
  IF i > Len(scored) THEN top
  ELSE LET ch == FindChunk(cs, scored[i].id) IN
       IF ch = <<>> THEN TopLoop(scored, i + 1, top, cs)
       ELSE IF Len(top) + 1 >= MaxContexts THEN Append(top, Context(ch[1]))
       ELSE TopLoop(scored, i + 1, Append(top, Context(ch[1])), cs)

\* index.score(question).slice(0, 8), then the loop
TopContexts(ranked, cs) ==
  TopLoop(SubSeq(ranked, 1, Min(TopK, Len(ranked))), 1, <<>>, cs)

\* the distinct non-empty urls of the contexts, in order
RECURSIVE UniqUrls(_, _)
UniqUrls(ctxs, seen) ==
  IF ctxs = <<>> THEN <<>>
  ELSE IF ctxs[1].url # <<>> /\ ctxs[1].url \notin seen
       THEN <<ctxs[1].url>> \o UniqUrls(Tail(ctxs), seen \cup {ctxs[1].url})
       ELSE UniqUrls(Tail(ctxs), seen)

\* `• ${c.text.slice(0, 200)}${c.text.length > 200 ? "..." : ""}`
Excerpt(c) == [text |-> Slice(c.text, 0, ExcerptLen), more |-> StrLen(c.text) > ExcerptLen]

\* A chat message.  ask (which handleAsk call it belongs to) and kind are
\* not fields of the program's message: they name what its text was built
\* from.
Message(role, ask, kind, text, answers, refs) ==
  [role |-> role, ask |-> ask, kind |-> kind, text |-> text, answers |-> answers, refs |-> refs]

UserMessage(ask, question) == Message("user", ask, "question", question, <<>>, <<>>)

\* data.answer + the links of the contexts
AnswerMessage(ask, top) == Message("assistant", ask, "answer", <<>>, <<>>, UniqUrls(top, {}))

\* the catch block: an excerpt of every context, or "관련 내용을 찾지 못했습니다."
FallbackMessage(ask, top) ==
  Message("assistant", ask, "fallback", <<>>,
          [i \in DOMAIN top |-> Excerpt(top[i])], UniqUrls(top, {}))

\* The chat after the catch block that only logs: a failed request leaves no
\* assistant message.
SettledChat_SilentCatch(prev, a, ok) ==
  IF ok THEN Append(prev, AnswerMessage(a.ask, a.top)) ELSE prev

\* setChat((prev) => [...prev, { role: "assistant", ... }]) of the try block
\* or of the catch block, for the pending call a
SettledChat(prev, a, ok) ==
  Append(prev, IF ok THEN AnswerMessage(a.ask, a.top) ELSE FallbackMessage(a.ask, a.top))

\* body: JSON.stringify({ question, contexts: topContexts })
AskRequest(question, top) ==
  [method |-> "POST",
   body |-> Body(Str(question),
                 Array([i \in DOMAIN top |->
                          Ctx(Str(top[i].text), Str(top[i].url), Str(top[i].title))]))]

\* How a fetch of /api/ask ends: the request never gets an answer, the body
\* is not JSON, or the handler answers with the generation service behaving
\* as one of GenOutcomes.
AskOutcomes == {"network", "badBody"} \cup GenOutcomes

NoOp == [op |-> "none"]

\* ------------------------------------------------------------ App: pools
\* What the operator types into the AdminPanel form.  The first content is
\* three sentences of about 400 characters (four passages); the second is
\* three sentences of 1600 double quotes and a word (six passages, three of
\* them over 3000 characters once serialized).
Forms ==
  { [title |-> <<R("sp", 1)>>, url |-> <<R("sp", 1)>> \o Rep("b", 12),
     content |->
       <<R("a", 1), R("sp", 1), R("c", 400), R("dot", 1), R("sp", 1),
         R("b", 1), R("sp", 1), R("c", 400), R("dot", 1), R("sp", 1),
         R("a", 1), R("sp", 1), R("b", 1), R("sp", 1), R("a", 1), R("sp", 1), R("c", 400),
         R("dot", 1)>>],
    [title |-> Rep("b", 1), url |-> Rep("c", 9),
     content |->
       <<R("quote", 1600), R("dot", 1), R("sp", 1), R("quote", 1600), R("dot", 1),
         R("sp", 1), R("quote", 1600), R("dot", 1), R("sp", 1), R("a", 1)>>] }

\* the files the operator picks: JSON arrays of raw documents (id 0: no id),
\* a JSON object, and a file that is not JSON
Files ==
  { [kind |-> "array",
     docs |-> <<Doc(1, Str(Rep("a", 1)), Str(Rep("b", 12)), Str(Rep("a", 1))),
                Doc(1, Str(Rep("b", 1)), Str(Rep("c", 9)), Str(Rep("b", 1)))>>],
    [kind |-> "array", docs |-> <<Doc(0, Str(Rep("a", 1)), Undef, Num)>>],
    [kind |-> "object", docs |-> <<>>],
    [kind |-> "garbage", docs |-> <<>>] }

\* the items of the feeds the operator points importFromRSS to
Item(title, link, content) == [title |-> title, link |-> link, content |-> content]

Feeds ==
  { <<>>,
    <<Item(Undef, Undef, Str(<<R("b", 1), R("bang", 1)>>)),
      Item(Str(Rep("b", 1)), Str(Rep("c", 9)), Str(Rep("a", 1)))>> }

\* What the /api/rss handler finds upstream: the fetch is rejected, the
\* status is not a success, or the feed parses into these items.
Upstreams ==
  {[kind |-> "unreachable", items |-> <<>>], [kind |-> "badStatus", items |-> <<>>]}
  \cup {[kind |-> "feed", items |-> f] : f \in Feeds}

\* { title, link, content } of the handler's items.map: a missing field
\* becomes ""
RssNormalize(it) ==
  Item(OrEmpty(it.title), OrEmpty(it.link), OrEmpty(it.content))

RssResponse(status, items) == [status |-> status, items |-> items]

\* The handler answering 200 with no items when the upstream fetch fails.
RssHandler_SwallowsFailure(hasUrl, up) ==
  IF ~hasUrl THEN RssResponse(400, <<>>)
  ELSE IF up.kind # "feed" THEN RssResponse(200, <<>>)
  ELSE RssResponse(200, [i \in DOMAIN up.items |-> RssNormalize(up.items[i])])

\* The second handler of ask.mjs (/api/rss): 400 without ?url=, 500 when the
\* upstream fetch fails or answers a non-success status, else 200 with the
\* items.
RssHandler(hasUrl, up) ==
  IF ~hasUrl THEN RssResponse(400, <<>>)
  ELSE IF up.kind # "feed" THEN RssResponse(500, <<>>)
  ELSE RssResponse(200, [i \in DOMAIN up.items |-> RssNormalize(up.items[i])])

\* How the fetch of /api/rss ends for importFromRSS: no response (status 0),
\* or the handler's response for an upstream; importFromRSS always sends a
\* url.  ok is res.ok, items is data.items.
RssOutcomes ==
  {[ok |-> FALSE, status |-> 0, up |-> [kind |-> "none", items |-> <<>>], items |-> <<>>]}
  \cup {[ok |-> RssHandler(TRUE, u).status = 200, status |-> RssHandler(TRUE, u).status,
          up |-> u, items |-> RssHandler(TRUE, u).items] : u \in Upstreams}

\* what the operator types into the question box
Questions == { <<R("sp", 1), R("a", 1)>>, Rep("bang", 1), Rep("sp", 1) }

\* localStorage as the page finds it: whether setItem works (it throws when
\* the quota is 0 or used up, as in some private windows), and the documents
\* of the array under STORAGE_KEY (none when there is no item).
InitialStores == { [writable |-> w, docs |-> <<>>] : w \in BOOLEAN }

\* ---------------------------------------------------------- App: state
\* The state of a page whose component tree is gone (before the first
\* render, after a reload, after a render threw).
Blank ==
  /\ chat = <<>> /\ activeTab = "chat" /\ loading = FALSE
  /\ asks = <<>> /\ nAsks = 0 /\ reads = <<>> /\ rss = <<>> /\ loadingRSS = FALSE

BlankNext ==
  /\ chat' = <<>> /\ activeTab' = "chat" /\ loading' = FALSE
  /\ asks' = <<>> /\ nAsks' = 0 /\ reads' = <<>> /\ rss' = <<>> /\ loadingRSS' = FALSE

\* loadKB(): the array saveKB stored, [] without an item.  JSON.stringify and
\* JSON.parse give back every document of the model as it was: its fields
\* are strings and numbers (an undefined field never gets into kb, see
\* Normalize and NewDoc).
LoadKB(st) == st.docs

\* The first render of a page: useState(() => loadKB()) and the two useMemo.
Mount(st) ==
  LET c == ExpandKb(LoadKB(st)) IN
  IF c.threw
  THEN kb = <<>> /\ chunks = <<>> /\ index = BuildTfIdfIndex(<<>>) /\ crashed = TRUE
  ELSE kb = LoadKB(st) /\ chunks = c.val /\ index = BuildTfIdfIndex(c.val) /\ crashed = FALSE

AppInit ==
  /\ stored \in InitialStores
  /\ Mount(stored)
  /\ Blank
  /\ nextUuid = 0
  /\ lastOp = NoOp

\* saveKB(kb): localStorage.setItem stores the set; in a browser whose storage
\* takes no writes it throws, the exception is caught and dropped, and the
\* item stays what it was.
SaveKB(st, next) == IF st.writable THEN [st EXCEPT !.docs = next] ELSE st

\* setKb(next); saveKB(next); and the render that follows.  When the render
\* throws, React unmounts the tree: the component state is gone and pending
\* callbacks update nothing.
SetKb(next) ==
  /\ stored' = SaveKB(stored, next)
  /\ LET r == Render(next) IN
     IF r.threw
     THEN /\ kb' = <<>> /\ chunks' = <<>> /\ index' = r.index /\ crashed' = TRUE
     ELSE /\ kb' = next /\ chunks' = r.chunks /\ index' = r.index /\ crashed' = FALSE

\* The rest of the state after a handler that called SetKb: P if the tree is
\* still mounted.
AfterSetKb(P) == IF crashed' THEN BlankNext ELSE P

\* AdminPanel unmounts when the tab changes: its loadingRSS is gone (a new
\* instance starts with false) and its pending importFromRSS calls can no
\* longer set it.
LeaveAdmin(toTab) ==
  IF activeTab = "admin" /\ toTab # "admin"
  THEN /\ loadingRSS' = FALSE
       /\ rss' = [i \in DOMAIN rss |-> [rss[i] EXCEPT !.mounted = FALSE]]
  ELSE UNCHANGED <<loadingRSS, rss>>

RemoveAt(q, i) == SubSeq(q, 1, i - 1) \o SubSeq(q, i + 1, Len(q))

\* The page is followed while its tree is mounted and until the last of its
\* MaxAsks questions is settled; after that only a reload goes on.
Running == ~crashed /\ (nAsks < MaxAsks \/ asks # <<>>)

\* -------------------------------------------------------- App: handlers
\* the three nav buttons
SetActiveTab(t) ==
  /\ Running
  /\ t # activeTab
  /\ activeTab' = t
  /\ LeaveAdmin(t)
  /\ lastOp' = NoOp /\ UNCHANGED others
  /\ UNCHANGED <<kb, chat, loading, chunks, index, stored, crashed, asks, nAsks,
                 reads, nextUuid>>

\* handleAsk, with query the text of the question box, up to its await:
\* score, pick the contexts, setLoading(true), append the user message, send
\* the request.
HandleAsk(query) ==
  LET question == Trim(query)
      ranked == Score(index, question)
      top == TopContexts(ranked, chunks)
  IN /\ question # <<>>
     /\ nAsks' = nAsks + 1
     /\ loading' = TRUE
     /\ chat' = Append(chat, UserMessage(nAsks + 1, question))
     /\ asks' = Append(asks, [ask |-> nAsks + 1, question |-> question, top |-> top])
     /\ lastOp' = [op |-> "ask", ask |-> nAsks + 1, question |-> question,
                   ranked |-> ranked, top |-> top]
     /\ UNCHANGED others
     /\ UNCHANGED <<kb, activeTab, chunks, index, stored, crashed, reads, rss,
                    loadingRSS, nextUuid>>

\* the button of the chat panel: disabled={loading}, onClick calls onAsk()
ClickAsk(query) == activeTab = "chat" /\ ~loading /\ HandleAsk(query)

\* the Enter key in the question box: onKeyDown calls onAsk()
EnterAsk(query) == activeTab = "chat" /\ HandleAsk(query)

AskByButton(query) == Running /\ nAsks < MaxAsks /\ ClickAsk(query)
AskByEnter(query) == Running /\ nAsks < MaxAsks /\ EnterAsk(query)

\* The rest of handleAsk, when the fetch of the i-th pending call ends as out:
\* the answer or the fallback is appended, then the finally block (which
\* also empties the question box).
FinishAsk(i, out) ==
  LET a == asks[i]
      req == AskRequest(a.question, a.top)
      resp == IF out \in GenOutcomes THEN AskHandler(req, out) ELSE NoResponse
      ok == out \in GenOutcomes /\ resp.status = 200
  IN /\ chat' = SettledChat(chat, a, ok)
     /\ loading' = FALSE
     /\ activeTab' = "chat"
     /\ asks' = RemoveAt(asks, i)
     /\ LeaveAdmin("chat")
     /\ lastOp' = [op |-> "settle", ask |-> a.ask, out |-> out, ok |-> ok,
                   sent |-> BodyContexts(req).items, resp |-> resp]
     /\ UNCHANGED others
     /\ UNCHANGED <<kb, chunks, index, stored, crashed, nAsks, reads, nextUuid>>

SettleAsk(i, out) == Running /\ FinishAsk(i, out)

\* handleAddDoc({ title, url, content }) from the form
NewDoc(id, f) ==
  Doc(id, IF Trim(f.title) # <<>> THEN Trim(f.title) ELSE NoTitle, Trim(f.url), f.content)

HandleAddDoc(f) ==
  /\ Running
  /\ activeTab = "admin"
  /\ nextUuid < MaxUuid
  /\ Len(kb) < MaxDocs
  /\ nextUuid' = nextUuid + 1
  /\ SetKb(<<NewDoc(Uuid(nextUuid + 1), [f EXCEPT !.content = Str(f.content)])>> \o kb)
  /\ lastOp' = NoOp /\ UNCHANGED others
  /\ AfterSetKb(UNCHANGED <<chat, activeTab, loading, asks, nAsks, reads, rss,
                            loadingRSS>>)

\* handleDeleteDoc(id) from the list of KBPanel
HandleDeleteDoc(id) ==
  /\ Running
  /\ activeTab = "kb"
  /\ \E i \in DOMAIN kb : kb[i].id = id
  /\ SetKb(SelectSeq(kb, LAMBDA d : d.id # id))
  /\ lastOp' = NoOp /\ UNCHANGED others
  /\ UNCHANGED nextUuid
  /\ AfterSetKb(UNCHANGED <<chat, activeTab, loading, asks, nAsks, reads, rss,
                            loadingRSS>>)

\* handleImport(file): the read starts; onload will use the kb of this render
HandleImport(file) ==
  /\ Running
  /\ activeTab = "admin"
  /\ Len(reads) + Len(rss) < MaxPending
  /\ Len(file.docs) + Len(kb) <= MaxDocs
  /\ reads' = Append(reads, [file |-> file, kb |-> kb])
  /\ lastOp' = NoOp /\ UNCHANGED others
  /\ UNCHANGED <<kb, chat, activeTab, loading, chunks, index, stored, crashed, asks,
                 nAsks, rss, loadingRSS, nextUuid>>

\* data.map((d) => ({ id: d.id || uuidv4(), title: d.title || "제목 없음",
\*                    url: d.url || "", content: d.content || "" }))
RECURSIVE Normalize(_, _)
Normalize(docs, used) ==
  IF docs = <<>> THEN <<>>
  ELSE LET d == docs[1]
           fresh == d.id = 0
       IN <<Doc(IF fresh THEN Uuid(used + 1) ELSE d.id,
                IF Truthy(d.title) THEN d.title.s ELSE NoTitle,
                OrEmpty(d.url).s,
                OrEmpty(d.content))>>
          \o Normalize(Tail(docs), IF fresh THEN used + 1 ELSE used)

NoId(docs) == Cardinality({i \in DOMAIN docs : docs[i].id = 0})

\* reader.onload of the i-th read, with a JSON array
ReaderLoadArray(i) ==
  LET rd == reads[i] IN
  /\ Running
  /\ rd.file.kind = "array"
  /\ nextUuid + NoId(rd.file.docs) <= MaxUuid
  /\ nextUuid' = nextUuid + NoId(rd.file.docs)
  /\ SetKb(Normalize(rd.file.docs, nextUuid) \o rd.kb)
  /\ lastOp' = NoOp /\ UNCHANGED others
  /\ AfterSetKb(/\ reads' = RemoveAt(reads, i)
                /\ UNCHANGED <<chat, activeTab, loading, asks, nAsks, rss, loadingRSS>>)

\* reader.onload with JSON that is no array, or with text that is no JSON:
\* an alert, nothing else
ReaderLoadRejected(i) ==
  /\ Running
  /\ reads[i].file.kind \in {"object", "garbage"}
  /\ reads' = RemoveAt(reads, i)
  /\ lastOp' = NoOp /\ UNCHANGED others
  /\ UNCHANGED <<kb, chat, activeTab, loading, chunks, index, stored, crashed, asks,
                 nAsks, rss, loadingRSS, nextUuid>>

\* importFromRSS up to its await (the button is disabled while loadingRSS);
\* onAdd is the handleAddDoc of this render, with this render's kb
ImportFromRSS ==
  /\ Running
  /\ activeTab = "admin"
  /\ ~loadingRSS
  /\ Len(reads) + Len(rss) < MaxPending
  /\ loadingRSS' = TRUE
  /\ rss' = Append(rss, [kb |-> kb, mounted |-> TRUE])
  /\ lastOp' = NoOp /\ UNCHANGED others
  /\ UNCHANGED <<kb, chat, activeTab, loading, chunks, index, stored, crashed, asks,
                 nAsks, reads, nextUuid>>

\* the finally block of importFromRSS for the i-th pending call
RssFinally(i) ==
  /\ rss' = RemoveAt(rss, i)
  /\ loadingRSS' = IF rss[i].mounted THEN FALSE ELSE loadingRSS

\* the fetch failed or the status was not ok (the alert of the catch block),
\* or the feed has no items (the alert before the early return)
RssNothing(i, out) ==
  /\ Running
  /\ ~out.ok \/ out.items = <<>>
  /\ RssFinally(i)
  /\ lastOp' = [op |-> "rss", out |-> out, mounted |-> rss[i].mounted,
                alert |-> IF out.ok THEN "noItems" ELSE "failed", count |-> 0,
                kbBefore |-> kb, storedBefore |-> stored]
  /\ UNCHANGED others
  /\ UNCHANGED <<kb, chat, activeTab, loading, chunks, index, stored, crashed, asks,
                 nAsks, reads, nextUuid>>

\* items.slice(0, 20).forEach((it) => onAdd({...})): every onAdd call is the
\* same handleAddDoc closure, so each builds [new document, ...rd.kb] and the
\* last setKb and saveKB win.
RssItems(i, out) ==
  LET items == out.items
      picked == SubSeq(items, 1, Min(RssPick, Len(items)))
      last == picked[Len(picked)]
      form == [title |-> IF Truthy(last.title) THEN last.title.s ELSE NoTitle,
               url |-> OrEmpty(last.link).s,
               content |-> Str(OrEmpty(last.content).s)]
  IN /\ Running
     /\ out.ok /\ items # <<>>
     /\ nextUuid + Len(picked) <= MaxUuid
     /\ Len(rss[i].kb) < MaxDocs
     /\ nextUuid' = nextUuid + Len(picked)
     /\ SetKb(<<NewDoc(Uuid(nextUuid + Len(picked)), form)>> \o rss[i].kb)
     /\ lastOp' = [op |-> "rss", out |-> out, mounted |-> rss[i].mounted,
                   alert |-> "added", count |-> Len(picked),
                   kbBefore |-> kb, storedBefore |-> stored]
     /\ UNCHANGED others
     /\ AfterSetKb(/\ RssFinally(i)
                   /\ UNCHANGED <<chat, activeTab, loading, asks, nAsks, reads>>)

\* the browser's reload button: a new page, mounted from localStorage
Reload ==
  /\ BlankNext
  /\ LET c == ExpandKb(LoadKB(stored)) IN
     IF c.threw
     THEN kb' = <<>> /\ chunks' = <<>> /\ index' = BuildTfIdfIndex(<<>>) /\ crashed' = TRUE
     ELSE /\ kb' = LoadKB(stored) /\ chunks' = c.val /\ index' = BuildTfIdfIndex(c.val)
          /\ crashed' = FALSE
  /\ lastOp' = NoOp /\ UNCHANGED others
  /\ UNCHANGED <<stored, nextUuid>>

Next ==
  \/ \E t \in {"chat", "admin", "kb"} : SetActiveTab(t)
  \/ \E q \in Questions : AskByButton(q)
  \/ \E q \in Questions : AskByEnter(q)
  \/ \E i \in DOMAIN asks, out \in AskOutcomes : SettleAsk(i, out)
  \/ \E f \in Forms : HandleAddDoc(f)
  \/ \E id \in {kb[i].id : i \in DOMAIN kb} : HandleDeleteDoc(id)
  \/ \E file \in Files : HandleImport(file)
  \/ \E i \in DOMAIN reads : ReaderLoadArray(i)
  \/ \E i \in DOMAIN reads : ReaderLoadRejected(i)
  \/ ImportFromRSS
  \/ \E i \in DOMAIN rss, out \in RssOutcomes : RssNothing(i, out)
  \/ \E i \in DOMAIN rss, out \in RssOutcomes : RssItems(i, out)
  \/ Reload

\* ------------------------------------------------------- specifications
ChunkRest == ckText = Undef /\ ckOpts = DefaultOpts /\ ChunkIdle
ApiRest == apiReq = [method |-> "", body |-> NoBody] /\ ApiIdle
TokRest == tkText = Undef /\ TokIdle

\* chunkText alone
InitChunk == ChunkSpecInit /\ TokRest /\ ApiRest /\ AppInit
SpecChunk == InitChunk /\ [][ChunkNext]_vars

\* tokenizeKorean alone
InitTok == TokSpecInit /\ ChunkRest /\ ApiRest /\ AppInit
SpecTok == InitTok /\ [][TokNext]_vars

\* the /api/ask handler alone
InitApi == ApiSpecInit /\ ChunkRest /\ TokRest /\ AppInit
SpecApi == InitApi /\ [][ApiNext]_vars

\* The chat panel alone, on a page opened over a stored document set that
\* is not changed: questions by the button and by the Enter key, and the
\* requests settling in any order.
NextChat ==
  \/ \E q \in Questions : nAsks < MaxChatAsks /\ ClickAsk(q)
  \/ \E q \in Questions : nAsks < MaxChatAsks /\ EnterAsk(q)
  \/ \E i \in DOMAIN asks, out \in AskOutcomes : FinishAsk(i, out)
InitChat ==
  /\ stored \in InitialStores \cup
       { [writable |-> TRUE,
          docs |-> <<NewDoc(Uuid(1), [f EXCEPT !.content = Str(f.content)])>>] :
           f \in Forms }
  /\ Mount(stored) /\ Blank /\ nextUuid = 0 /\ lastOp = NoOp
  /\ ChunkRest /\ TokRest /\ ApiRest
SpecChat == InitChat /\ [][NextChat]_vars

\* the App in the browser, its requests answered by the /api/ask handler
Init == AppInit /\ ChunkRest /\ TokRest /\ ApiRest
Spec == Init /\ [][Next]_vars

\* ================================================================ claims

\* ---- /api/ask (SpecApi)
Received == BodyContexts(apiReq).items

\* C1 (as stated): the serialized size of the accepted list, limited, never
\* exceeds 8000, and every accepted text has at most 1500 characters.
C1_ListWithinCap ==
  /\ ListJsonLen(apiSt.limited) <= ChunksizeLimit
  /\ \A i \in DOMAIN apiSt.limited : StrLen(apiSt.limited[i].text) <= TextCap

\* C1 (amended): the serialized sizes of the accepted items add up to at most
\* 8000, so that the serialized list, with its brackets and commas, has at
\* most 8000 + (number of items) + 1 characters; every accepted text has at
\* most 1500 characters; and the list returned as used is that list.
C1_ItemsWithinCap ==
  /\ SumItemLens(apiSt.limited) <= ChunksizeLimit
  /\ ListJsonLen(apiSt.limited) <= ChunksizeLimit + Len(apiSt.limited) + 1
  /\ \A i \in DOMAIN apiSt.limited : StrLen(apiSt.limited[i].text) <= TextCap
  /\ apiRes.status = 200 => apiRes.used = apiSt.limited

\* A 200 response whose used list holds a text that was cut to 1500
\* characters, after a later context overflowed the limit.
C1_Witness ==
  /\ apiPc = "done" /\ apiRes.status = 200
  /\ Len(apiRes.used) < Len(Received)
  /\ \E i \in DOMAIN apiRes.used :
       /\ StrLen(OrEmpty(Received[i].text).s) > TextCap
       /\ StrLen(apiRes.used[i].text) = TextCap

\* C8: a request with a method other than POST is answered 405, a POST
\* request whose question is missing or empty or whose contexts is no array is
\* answered 400; in both cases the budget loop has not run (no context read,
\* nothing accepted) and the generation service has not been called.
C8_RejectedBeforeBudgeting ==
  LET notPost == apiReq.method \notin {"POST", ""}
      badBody == /\ apiReq.method = "POST"
                 /\ \/ BodyQuestion(apiReq) \in {Undef, Str(<<>>)}
                    \/ ~BodyContexts(apiReq).isArray
  IN /\ notPost \/ badBody => apiPc \in {"recv", "done"} /\ apiI = 0 /\ apiSt = BudgetInit
     /\ apiPc = "done" /\ notPost =>
          apiRes.status = 405 /\ ~apiRes.budgeted /\ ~apiRes.genCalled
     /\ apiPc = "done" /\ badBody =>
          apiRes.status = 400 /\ ~apiRes.budgeted /\ ~apiRes.genCalled

\* A POST request with a question and with contexts that is no array has
\* been answered.
C8_Witness ==
  /\ apiPc = "done"
  /\ apiReq.method = "POST"
  /\ Truthy(BodyQuestion(apiReq))
  /\ apiReq.body.present /\ ~BodyContexts(apiReq).isArray
  /\ apiRes.status = 400

\* ---- the App (Spec)
Asked == lastOp.op = "ask"
Settled == lastOp.op = "settle"

IsZero(r) == r.score.num = 0
IsPositive(r) == r.score.num > 0

\* the terms of a passage and of the question
TermsOf(text) == Range(TokenizeKorean(Str(text)).val)

\* how many times x occurs in the sequence q
Occurrences(q, x) == Cardinality({i \in DOMAIN q : q[i] = x})

\* C2 (as stated): the contexts handleAsk forwards are the first min(6, n)
\* entries of the ranked list, in rank order: the i-th context is the text,
\* url and title of the passage the i-th ranked entry stands for.  The list
\* the server accepts is a prefix of the contexts it received, cut at the
\* first item that would overflow the limit.
C2_RankPreserved ==
  /\ Asked =>
       /\ Len(lastOp.top) = Min(MaxContexts, Len(lastOp.ranked))
       /\ \A i \in DOMAIN lastOp.top :
            \E j \in DOMAIN chunks :
              /\ chunks[j].id = lastOp.ranked[i].id
              /\ chunks[j].meta = lastOp.ranked[i].meta
              /\ lastOp.top[i] = Context(chunks[j])
  /\ Settled /\ lastOp.resp.status = 200 =>
       LET used == lastOp.resp.used
           sent == lastOp.sent
           k == Len(used)
       IN /\ k <= Len(sent)
          /\ used = [i \in 1..k |-> MakeItem(sent[i])]
          /\ k < Len(sent) =>
               SumItemLens(used) + ItemJsonLen(MakeItem(sent[k + 1])) > ChunksizeLimit

\* C3: score returns one result per passage (none for an empty document
\* set), each result's score at least the score of the result after it.
C3_OnePerPassageDescending ==
  Asked =>
    LET r == lastOp.ranked
        entry(c) == [id |-> c.id, meta |-> c.meta]
        entries(q) == [i \in DOMAIN q |-> entry(q[i])]
    IN /\ Len(r) = Len(chunks)
       /\ \A j \in DOMAIN chunks :
            Occurrences(entries(r), entry(chunks[j]))
              = Occurrences(entries(chunks), entry(chunks[j]))
       /\ \A i \in 1..(Len(r) - 1) :
            r[i].score.num * r[i + 1].score.den >= r[i + 1].score.num * r[i].score.den

\* A question was scored over several passages and the sort moved a passage
\* with a higher score in front of an earlier passage.
C3_Witness ==
  /\ Asked
  /\ Len(lastOp.ranked) >= 3
  /\ \E i \in 1..(Len(lastOp.ranked) - 1) : IsPositive(lastOp.ranked[i]) /\ IsZero(lastOp.ranked[i + 1])
  /\ [i \in DOMAIN lastOp.ranked |-> lastOp.ranked[i].id] # [i \in DOMAIN chunks |-> chunks[i].id]

\* C4 (as stated): for a question with at least one term, a passage sharing
\* no term with it scores 0, a passage containing every term of it scores
\* more than 0, and no zero-scoring passage is ranked before a positively
\* scoring one.
C4_RelevanceMonotone ==
  Asked /\ TermsOf(lastOp.question) # {} =>
    /\ \A j \in DOMAIN chunks :
         LET s == PassageScore(index, index.docTokens[chunks[j].id],
                               TokenizeKorean(Str(lastOp.question)).val)
         IN /\ TermsOf(chunks[j].text) \cap TermsOf(lastOp.question) = {} => s.num = 0
            /\ TermsOf(lastOp.question) \subseteq TermsOf(chunks[j].text) => s.num > 0
    /\ \A i, k \in DOMAIN lastOp.ranked :
         i < k => ~(IsZero(lastOp.ranked[i]) /\ IsPositive(lastOp.ranked[k]))

\* C5 (as stated): when the question gives every passage the score 0,
\* handleAsk treats it as no relevant result: it selects no context, so none
\* is sent to the generator and none can be shown as an answer.
C5_NoZeroScoredContext ==
  Asked /\ (\A i \in DOMAIN lastOp.ranked : IsZero(lastOp.ranked[i])) =>
    /\ lastOp.top = <<>>
    /\ asks[Len(asks)].top = <<>>

\* C6: while the page is up, the passages are those of the current document
\* set and the index is the one built from them, and a question is scored
\* against exactly that index, whatever additions, deletions and imports came
\* before.
C6_IndexIsCurrent ==
  ~crashed =>
    LET current == ExpandKb(kb) IN
    /\ ~current.threw
    /\ chunks = current.val
    /\ index = BuildTfIdfIndex(current.val)
    /\ Asked => lastOp.ranked = Score(BuildTfIdfIndex(current.val), lastOp.question)

\* A question was scored over two documents, the document set having been
\* changed more than once.
C6_Witness ==
  /\ Asked
  /\ Len(kb) >= 2
  /\ \E i \in DOMAIN kb : kb[i].id # Uuid(1)
  /\ \E i \in DOMAIN lastOp.ranked : IsPositive(lastOp.ranked[i])

\* the messages of the chat that belong to question a
UserOf(a) == {i \in DOMAIN chat : chat[i].role = "user" /\ chat[i].ask = a}
AssistantOf(a) == {i \in DOMAIN chat : chat[i].role = "assistant" /\ chat[i].ask = a}
Pending(a) == \E i \in DOMAIN asks : asks[i].ask = a

\* C7: a question accepted by handleAsk has one user message; once its
\* request has settled, in whatever way, it has exactly one assistant message,
\* after its user message, and none before that; when the request failed
\* (no response, a body that does not parse, a status other than 200) the
\* message is the fallback built from the contexts that were selected.
C7_OneAssistantMessagePerSettledAsk ==
  /\ \A a \in 1..nAsks :
       /\ Cardinality(UserOf(a)) = 1
       /\ Pending(a) => AssistantOf(a) = {}
       /\ ~Pending(a) =>
            /\ Cardinality(AssistantOf(a)) = 1
            /\ \A i \in UserOf(a), j \in AssistantOf(a) : i < j
  /\ Settled =>
       LET last == chat[Len(chat)]
           failed == lastOp.out \in {"network", "badBody"} \/ lastOp.resp.status # 200
       IN /\ last.role = "assistant" /\ last.ask = lastOp.ask
          /\ failed => /\ last.kind = "fallback"
                       /\ Len(last.answers) = Len(lastOp.sent)
                       /\ \A i \in DOMAIN last.answers :
                            /\ StrLen(last.answers[i].text) <= ExcerptLen
                            /\ last.answers[i].text
                                 = Take(lastOp.sent[i].text.s, StrLen(last.answers[i].text))
          /\ ~failed => last.kind = "answer"

\* A request failed after contexts had been selected, and the fallback with
\* their excerpts is in the chat.
C7_Witness ==
  /\ Settled
  /\ lastOp.resp.status = 500
  /\ chat[Len(chat)].kind = "fallback"
  /\ Len(chat[Len(chat)].answers) >= 2

\* C9 (as stated): no stored document makes the rebuild of the passages and
\* of the index fail: chunkText returns for the content of every stored
\* document, and the page stays up.
C9_RebuildNeverFails ==
  /\ ~crashed
  /\ \A i \in DOMAIN LoadKB(stored) :
       ~ChunkText(LoadKB(stored)[i].content, DefaultOpts).threw

\* ---- chunkText (SpecChunk)

IsBlank(s) == Trim(s) = <<>>

\* Every non-blank segment from the i-th on lies inside a passage, the
\* passages being taken in non-decreasing order from the j-th on.  With
\* trimmed, a segment is looked for without its leading/trailing whitespace.
RECURSIVE CoveredFrom(_, _, _, _, _)
CoveredFrom(segs, i, ps, j, trimmed) ==
  IF i > Len(segs) THEN TRUE
  ELSE IF IsBlank(segs[i]) THEN CoveredFrom(segs, i + 1, ps, j, trimmed)
  ELSE LET want == IF trimmed THEN Trim(segs[i]) ELSE segs[i]
           hits == {p \in j..Len(ps) : IsSubstr(want, ps[p])}
       IN /\ hits # {}
          /\ CoveredFrom(segs, i + 1, ps, CHOOSE p \in hits : \A q \in hits : p <= q, trimmed)

\* C10 (as stated): when chunkText returns, every segment that is not
\* whitespace-only appears in full (character for character) inside a passage,
\* the passages following the segments' left-to-right order.
C10_CoverageVerbatim ==
  ckPc = "done" => CoveredFrom(ckSents, 1, ckOut, 1, FALSE)

\* C10 (amended): when chunkText returns, every segment that is not
\* whitespace-only appears contiguously inside a passage up to the segment's
\* own leading and trailing whitespace (passages are trimmed), in left-to-right
\* order; no segment is dropped at a flush or at the end.
C10_CoverageTrimmed ==
  ckPc = "done" => CoveredFrom(ckSents, 1, ckOut, 1, TRUE)

\* chunkText returned after at least one flush, over at least two non-blank
\* segments, one of them ending in whitespace.
C10_Witness ==
  /\ ckPc = "done"
  /\ Len(ckOut) >= 2
  /\ Cardinality({i \in 1..Len(ckSents) : ~IsBlank(ckSents[i])}) >= 2
  /\ \E i \in 1..Len(ckSents) : ~IsBlank(ckSents[i]) /\ Trim(ckSents[i]) # ckSents[i]

\* the characters of the string s
CharsOf(s) == {s[i].c : i \in DOMAIN s}

C12_TokenizerIdempotent ==
  /\ tkPc \in {"once", "twice"} =>
       \A i \in DOMAIN tkOut :
         /\ tkOut[i] # <<>>
         /\ CharsOf(tkOut[i]) \subseteq {"a", "b", "c", "one", "da", "yo"}
  /\ tkPc = "twice" => tkAgain = tkOut

\* A text with an uppercase letter, punctuation and whitespace has been
\* tokenized into two terms or more, and the terms tokenized again.
C12_Witness ==
  /\ tkPc = "twice"
  /\ Len(tkOut) >= 2
  /\ "A" \in CharsOf(tkText.s)
  /\ CharsOf(tkText.s) \cap {"dot", "quote"} # {}

\* ---- RSS import (Spec)
RssEnded == lastOp.op = "rss"

\* C13: when the upstream fetch fails or answers a non-success status,
\* /api/rss answers with an error and importFromRSS shows the failure alert;
\* when the feed has no items, /api/rss answers 200 with no items and
\* importFromRSS shows the 'no items' notice; in both cases the document set
\* and its stored copy are unchanged; and when importFromRSS has finished, in
\* whatever way, loadingRSS of the panel that started it is false: it is
\* true exactly while a call of the panel on screen is pending.
C13_RssOutcomes ==
  /\ RssEnded =>
       /\ lastOp.out.up.kind \in {"unreachable", "badStatus"} =>
            lastOp.out.status = 500 /\ lastOp.alert = "failed"
       /\ lastOp.out.up.kind = "feed" /\ lastOp.out.up.items = <<>> =>
            lastOp.out.status = 200 /\ lastOp.out.items = <<>> /\ lastOp.alert = "noItems"
       /\ lastOp.out.status # 200 => lastOp.alert = "failed"
       /\ lastOp.alert \in {"failed", "noItems"} =>
            kb = lastOp.kbBefore /\ stored = lastOp.storedBefore
       /\ lastOp.mounted => ~loadingRSS
  /\ loadingRSS <=> \E i \in DOMAIN rss : rss[i].mounted

\* An import over a non-empty document set ended with the failure alert
\* because of the upstream status, the panel still being on screen.
C13_Witness ==
  /\ RssEnded
  /\ lastOp.out.up.kind = "badStatus"
  /\ lastOp.alert = "failed"
  /\ lastOp.mounted
  /\ kb # <<>>

\* C14 (as stated): after importFromRSS succeeded on a feed of k >= 1 items,
\* the document set is one new document for each of the first min(k, 20)
\* items, in front of every document that was there immediately before, and
\* that many documents are reported as added.
C14_RssAddsEveryItem ==
  RssEnded /\ lastOp.alert = "added" =>
    LET n == Min(RssPick, Len(lastOp.out.items)) IN
    /\ lastOp.count = n
    /\ Len(kb) = Len(lastOp.kbBefore) + n
    /\ SubSeq(kb, n + 1, Len(kb)) = lastOp.kbBefore
    /\ \A j \in 1..n :
         \E d \in 1..n : /\ kb[d].url = OrEmpty(lastOp.out.items[j].link).s
                          /\ kb[d].content = Str(OrEmpty(lastOp.out.items[j].content).s)

\* ---- ties (Spec)
\* id and meta of a passage or of a result
EntryOf(c) == [id |-> c.id, meta |-> c.meta]

\* C15: results with equal scores come in the order their passages have in
\* the passage set; for a question without terms every score is 0 and the
\* results are in passage-set order.
C15_TiesKeepPassageOrder ==
  Asked =>
    LET r == lastOp.ranked IN
    /\ \A i, k \in DOMAIN r :
         i < k /\ ScoreCmp(r[i], r[k]) = 0 /\ EntryOf(r[i]) # EntryOf(r[k]) =>
           \E a, b \in DOMAIN chunks :
             a < b /\ EntryOf(chunks[a]) = EntryOf(r[i]) /\ EntryOf(chunks[b]) = EntryOf(r[k])
    /\ TermsOf(lastOp.question) = {} =>
         /\ \A i \in DOMAIN r : IsZero(r[i])
         /\ [i \in DOMAIN r |-> EntryOf(r[i])] = [i \in DOMAIN chunks |-> EntryOf(chunks[i])]

\* A question with a term was scored over passages of which one scores
\* more than 0 and several score 0, in front of the positive one in the
\* passage set.
C15_Witness ==
  /\ Asked /\ TermsOf(lastOp.question) # {}
  /\ Len(lastOp.ranked) >= 3
  /\ IsPositive(lastOp.ranked[1])
  /\ Cardinality({i \in DOMAIN lastOp.ranked : IsZero(lastOp.ranked[i])}) >= 2
  /\ \E j \in DOMAIN chunks : j >= 3 /\ EntryOf(chunks[j]) = EntryOf(lastOp.ranked[1])

\* ---- the index (Spec)
\* the terms of the passage set
CorpusTerms == UNION {TermsOf(chunks[j].text) : j \in DOMAIN chunks}

\* C16: in the index built over the passage set, the document frequency of
\* every term is the number of passages containing it (however often), hence
\* at most the number of passages; the corpus size N is at least 1, and so
\* is every denominator of a score.
C16_DocumentFrequency ==
  /\ DOMAIN index.df = CorpusTerms
  /\ \A t \in CorpusTerms :
       /\ index.df[t] = Cardinality({j \in DOMAIN chunks : t \in TermsOf(chunks[j].text)})
       /\ index.df[t] <= Len(chunks)
       /\ index.df[t] <= index.N
  /\ index.N >= 1 /\ index.N >= Len(chunks)
  /\ Asked => \A i \in DOMAIN lastOp.ranked : lastOp.ranked[i].score.den >= 1

\* The index holds a term that occurs twice in one passage and in other
\* passages too, and a question was scored, also over a passage without any
\* term.
C16_Witness ==
  /\ Asked
  /\ \E j \in DOMAIN chunks, t \in CorpusTerms :
       /\ Count(TokenizeKorean(Str(chunks[j].text)).val, t) >= 2
       /\ index.df[t] >= 2
  /\ \E j \in DOMAIN chunks : TermsOf(chunks[j].text) = {}

\* ---- document ids (Spec)
\* C17: the ids of the documents of the document set are pairwise distinct,
\* and so are the ids of the passages built from them.
C17_DocumentIdsDistinct ==
  /\ \A i, j \in DOMAIN kb : i # j => kb[i].id # kb[j].id
  /\ \A a, b \in DOMAIN chunks : a # b => chunks[a].id # chunks[b].id

\* ---- one question at a time (Spec)
\* C18: at most one generation request is in flight, loading is true exactly
\* while one is pending, and the chat alternates strictly between a user
\* message and an assistant message.
C18_OneRequestInFlight ==
  ~crashed =>
    /\ Len(asks) <= 1
    /\ loading <=> asks # <<>>
    /\ \A i \in DOMAIN chat :
         chat[i].role = (IF i % 2 = 1 THEN "user" ELSE "assistant")

\* ---- persistence (Spec)
\* C19: while the page is mounted, the document set in localStorage, as
\* loadKB returns it, is the document set in memory.
C19_StoredIsCurrent == ~crashed => LoadKB(stored) = kb

\* ---- the soft length bound (SpecChunk)
\* the state of chunkText's loop before it takes the i-th segment
BeforeSeg(i) == ChunkLoop(SubSeq(ckSents, 1, i - 1), 1, ChunkInit, ckOpts)

\* the segments at which the buffer overflows and is flushed
Flushes ==
  {i \in 1..Len(ckSents) : StrLen(Cat(BeforeSeg(i).buf, ckSents[i])) > ckOpts.maxLen}

\* the first flush after the i-th segment, or the end of the loop
NextFlush(i) ==
  LET later == {j \in Flushes : j > i} IN
  IF later = {} THEN Len(ckSents) + 1 ELSE CHOOSE j \in later : \A k \in later : j <= k

\* the trailing min(overlap, buffer length) characters of the buffer flushed
\* at the i-th segment, followed by that segment
Seed(i) ==
  LET buf == BeforeSeg(i).buf
      n == Min(ckOpts.overlap, StrLen(buf))
  IN Cat(Slice(buf, StrLen(buf) - n, StrLen(buf)), ckSents[i])

RECURSIVE CatAll(_)
CatAll(ss) == IF ss = <<>> THEN EmptyStr ELSE Cat(ss[1], CatAll(Tail(ss)))

\* a passage follows the flush at the i-th segment: the buffer started there
\* is not blank when it is pushed; PassageAfter is its place in the result
HasPassageAfter(i) == ~IsBlank(BeforeSeg(NextFlush(i)).buf)
PassageAfter(i) == Len(BeforeSeg(i + 1).chunks) + 1

SegmentsFit == \A i \in 1..Len(ckSents) : StrLen(ckSents[i]) <= ckOpts.maxLen

StartsWith(s, pre) == Take(s, StrLen(pre)) = pre

\* C20 (as stated): when every segment has at most maxLen characters, every
\* passage has at most maxLen + overlap characters, and each passage that
\* follows a flush starts with the trailing min(overlap, buffer length)
\* characters of the flushed buffer followed by the segment that triggered
\* the flush.
C20_SoftBoundVerbatim ==
  ckPc = "done" /\ SegmentsFit =>
    /\ \A p \in DOMAIN ckOut : StrLen(ckOut[p]) <= ckOpts.maxLen + ckOpts.overlap
    /\ \A i \in Flushes :
         HasPassageAfter(i) =>
           /\ PassageAfter(i) \in DOMAIN ckOut
           /\ StartsWith(ckOut[PassageAfter(i)], Seed(i))

\* C20 (amended): when every segment has at most maxLen characters, every
\* passage has at most maxLen + overlap characters, and each passage that
\* follows a flush is, once its leading and trailing whitespace is put
\* aside (passages are trimmed), the trailing min(overlap, buffer length)
\* characters of the flushed buffer, followed by the segment that triggered
\* the flush and by the segments taken before the next flush.
C20_SoftBoundTrimmed ==
  ckPc = "done" /\ SegmentsFit =>
    /\ \A p \in DOMAIN ckOut : StrLen(ckOut[p]) <= ckOpts.maxLen + ckOpts.overlap
    /\ \A i \in Flushes :
         HasPassageAfter(i) =>
           /\ PassageAfter(i) \in DOMAIN ckOut
           /\ ckOut[PassageAfter(i)]
                = Trim(Cat(Seed(i), CatAll(SubSeq(ckSents, i + 1, NextFlush(i) - 1))))
           /\ StartsWith(ckOut[PassageAfter(i)], Trim(Seed(i)))

\* chunkText returned over segments that all fit; a flush carried a non-blank
\* tail into a passage longer than maxLen, and at some flush the tail and
\* the segment begin or end with whitespace that the passage does not have.
C20_Witness ==
  /\ ckPc = "done" /\ SegmentsFit
  /\ \E i \in Flushes :
       /\ HasPassageAfter(i)
       /\ ~IsBlank(Take(Seed(i), StrLen(Seed(i)) - StrLen(ckSents[i])))
       /\ StrLen(ckOut[PassageAfter(i)]) > ckOpts.maxLen
  /\ \E i \in Flushes : HasPassageAfter(i) /\ Trim(Seed(i)) # Seed(i)

====
